---- MODULE Spec2Model ----
(***************************************************************************)
(* Model of src/icons/icon_organizer.py: organize_icons and its helpers.   *)
(*                                                                         *)
(* A path is the index of a file in `files` (the order os.walk yields      *)
(* them).  A file has a base name, an extension and a content.  Content 0  *)
(* stands for a file that cannot be read, content 1 for bytes the image    *)
(* decoder rejects (the .svg case); every other content is decodable.      *)
(* Python's None is the empty sequence: like None it is falsy in           *)
(* `if md5_hash:` / `if phash:`.  A dict is the sequence of its entries in *)
(* insertion order, which is the order Python iterates it in.              *)
(***************************************************************************)
EXTENDS Integers, Sequences, FiniteSets, TLC

\* ---- bounds of the input domain ----
MaxFiles == 3
MaxContent == 5
MaxThreshold == 2

None == <<>>

BaseNames == { <<"icon">>, <<"icon", 2>> }

\* .svg is in the allow-list although the decoder cannot open it
ExtOf(c) == IF c = 1 THEN ".svg" ELSE ".png"

FileChoices ==
    { [base |-> b, ext |-> ExtOf(c), content |-> c] :
        b \in BaseNames, c \in 0..MaxContent }

RECURSIVE SeqsUpTo(_, _)
SeqsUpTo(S, n) ==
    IF n = 0 THEN { <<>> }
    ELSE LET shorter == SeqsUpTo(S, n - 1)
         IN  shorter \cup { Append(s, x) : s \in { t \in shorter : Len(t) = n - 1 }, x \in S }

VARIABLES
    files,                 \* the tree under root_dir, in os.walk order
    root_exists,           \* whether root_dir exists
    similarity_threshold,  \* the threshold argument
    pc,                    \* position in organize_icons
    dirs,                  \* directories that exist under (and including) output_dir
    made,                  \* directories this run created with os.makedirs
    all_images,
    md5_groups,
    unique_images,
    duplicate_count,
    phash_groups,
    similar_groups,
    processed_hashes,
    i,                     \* position of the running for-loop (1-based)
    j,                     \* enumerate() index of the inner copy loop (0-based)
    unique_count,
    unique_files,          \* contents of unique_icons: file name -> source path
    group_files,           \* contents of group_1, group_2, ...: file name -> source path
    copied                 \* the shutil.copy2 calls that succeeded, in order

vars == << files, root_exists, similarity_threshold, pc, dirs, made, all_images,
           md5_groups, unique_images, duplicate_count, phash_groups,
           similar_groups, processed_hashes, i, j, unique_count, unique_files,
           group_files, copied >>

\* ---- helpers -----------------------------------------------------------

Min(a, b) == IF a < b THEN a ELSE b

Range(s) == { s[k] : k \in 1..Len(s) }

\* the truth value Python gives a str or None in `if x:`
Truthy(x) == x # None

\* defaultdict(list): d[key].append(path)
DictAppend(d, key, path) ==
    IF \E k \in 1..Len(d) : d[k].key = key
    THEN [ k \in 1..Len(d) |->
             IF d[k].key = key
             THEN [ d[k] EXCEPT !.paths = Append(@, path) ]
             ELSE d[k] ]
    ELSE Append(d, [ key |-> key, paths |-> << path >> ])

Keys(d) == { d[k].key : k \in 1..Len(d) }

\* ---- the module-level functions ---------------------------------------

\* imagehash.phash of decodable content: a fixed-length string, here two
\* characters; contents 3 and 4 differ in bytes but share a fingerprint.
PhashOfContent(c) ==
    LET g == ((c - 1) \div 2) % 4
    IN  << g \div 2, g % 2 >>

calculate_image_hash(image_path) ==
    IF files[image_path].content \in {0, 1} THEN None
    ELSE PhashOfContent(files[image_path].content)

calculate_file_md5(file_path) ==
    IF files[file_path].content = 0 THEN None
    ELSE << files[file_path].content >>

is_image_file(file_path) ==
    files[file_path].ext \in { ".png", ".jpg", ".jpeg", ".gif", ".bmp", ".webp", ".ico", ".svg" }

basename(path) == [ base |-> files[path].base, ext |-> files[path].ext ]

\* f"{base}_{n}{ext}" after base, ext = os.path.splitext(filename)
Suffixed(filename, n) == [ filename EXCEPT !.base = Append(@, n) ]

\* sum(c1 != c2 for c1, c2 in zip(phash, other_phash))
HammingDistance(phash, other_phash) ==
    Cardinality({ k \in 1..Min(Len(phash), Len(other_phash)) : phash[k] # other_phash[k] })


\* ---- the stages of organize_icons as functions of their inputs ---------

OutputDir == << "output" >>
UniqueDir == << "output", "unique_icons" >>
SimilarDir == << "output", "similar_groups" >>
GroupDir(n) == << "output", "similar_groups", "group", n >>

\* os.walk(root_dir) yields nothing, and raises nothing, when root_dir is missing
Walk == IF root_exists THEN [ p \in 1..Len(files) |-> p ] ELSE <<>>

RECURSIVE ScanImages(_, _)
ScanImages(walked, images) ==
    IF walked = <<>> THEN images
    ELSE ScanImages(Tail(walked),
                    IF is_image_file(Head(walked)) THEN Append(images, Head(walked))
                    ELSE images)

RECURSIVE GroupByMd5(_, _)
GroupByMd5(images, groups) ==
    IF images = <<>> THEN groups
    ELSE LET md5_hash == calculate_file_md5(Head(images))
         IN  GroupByMd5(Tail(images),
                        IF Truthy(md5_hash) THEN DictAppend(groups, md5_hash, Head(images))
                        ELSE groups)

Representative(file_paths) == file_paths[1]

\* a slip: the representative counted as a duplicate too
DuplicatesIn_CountsAll(file_paths) == Len(file_paths)

DuplicatesIn(file_paths) == Len(file_paths) - 1

RECURSIVE CountDuplicates(_)
CountDuplicates(groups) ==
    IF groups = <<>> THEN 0
    ELSE DuplicatesIn(Head(groups).paths) + CountDuplicates(Tail(groups))

\* a slip: `if phash:` left out
PhashGroupsAdd_NoCheck(groups, image_path) ==
    DictAppend(groups, calculate_image_hash(image_path), image_path)

PhashGroupsAdd(groups, image_path) ==
    LET phash == calculate_image_hash(image_path)
    IN  IF Truthy(phash) THEN DictAppend(groups, phash, image_path) ELSE groups

RECURSIVE GroupByPhash(_, _)
GroupByPhash(images, groups) ==
    IF images = <<>> THEN groups
    ELSE GroupByPhash(Tail(images), PhashGroupsAdd(groups, Head(images)))

\* a slip: off by one in the comparison
IsSimilar_OffByOne(phash, other_phash, threshold) ==
    HammingDistance(phash, other_phash) <= threshold + 1

\* a slip: == for <=
IsSimilar_Exact(phash, other_phash, threshold) ==
    HammingDistance(phash, other_phash) = threshold

IsSimilar(phash, other_phash, threshold) ==
    HammingDistance(phash, other_phash) <= threshold

\* a slip: the processed-marker test left out
ShouldScan_NoProcessedCheck(phash, other_phash, processed) ==
    other_phash # phash

ShouldScan(phash, other_phash, processed) ==
    other_phash # phash /\ other_phash \notin processed

\* the inner for-loop: st = [group |-> similar_group, processed |-> processed_hashes]
RECURSIVE ScanOthers(_, _, _, _, _)
ScanOthers(groups, phash, k, st, threshold) ==
    IF k > Len(groups) THEN st
    ELSE LET other == groups[k]
         IN  ScanOthers(groups, phash, k + 1,
                 IF /\ ShouldScan(phash, other.key, st.processed)
                    /\ IsSimilar(phash, other.key, threshold)
                 THEN [ group |-> st.group \o other.paths,
                        processed |-> st.processed \cup { other.key } ]
                 ELSE st,
                 threshold)

\* one iteration of the outer for-loop: st = [similar_groups, processed_hashes]
ClusterIteration(groups, idx, st, threshold) ==
    LET phash == groups[idx].key
        file_paths == groups[idx].paths
    IN  IF phash \in st.processed_hashes THEN st
        ELSE LET scanned == ScanOthers(groups, phash, 1,
                                [ group |-> file_paths,
                                  processed |-> st.processed_hashes \cup { phash } ],
                                threshold)
             IN  [ similar_groups |->
                       IF Len(scanned.group) > 1
                       THEN Append(st.similar_groups, scanned.group)
                       ELSE st.similar_groups,
                   processed_hashes |-> scanned.processed ]

\* the whole clustering pass from iteration idx on
RECURSIVE ClusterFrom(_, _, _, _)
ClusterFrom(groups, idx, st, threshold) ==
    IF idx > Len(groups) THEN st
    ELSE ClusterFrom(groups, idx + 1, ClusterIteration(groups, idx, st, threshold), threshold)

ClusterAll(groups, threshold) ==
    ClusterFrom(groups, 1, [ similar_groups |-> <<>>, processed_hashes |-> {} ], threshold)

IsUniqueIcon(file_paths, phash, processed) ==
    Len(file_paths) = 1 /\ phash \notin processed

Names(dir) == { e.name : e \in dir }

\* shutil.copy2(src, dst) into a directory: an existing dst is overwritten
Copy2(dir, dst, src) ==
    { e \in dir : e.name # dst } \cup { [ name |-> dst, src |-> src ] }

UniqueDstPath(filename, dir, count) ==
    IF filename \in Names(dir) THEN Suffixed(filename, count) ELSE filename

GroupDstPath(filename, dir, index) ==
    IF filename \in Names(dir) THEN Suffixed(filename, index) ELSE filename

\* ---- the run -----------------------------------------------------------

Init ==
    /\ root_exists \in BOOLEAN
    /\ files \in IF root_exists THEN SeqsUpTo(FileChoices, MaxFiles) ELSE { <<>> }
    /\ similarity_threshold \in 0..MaxThreshold
    /\ dirs \in { {}, { OutputDir } }
    /\ made = {}
    /\ pc = "start"
    /\ all_images = <<>>
    /\ md5_groups = <<>>
    /\ unique_images = <<>>
    /\ duplicate_count = 0
    /\ phash_groups = <<>>
    /\ similar_groups = <<>>
    /\ processed_hashes = {}
    /\ i = 1
    /\ j = 0
    /\ unique_count = 0
    /\ unique_files = {}
    /\ group_files = <<>>
    /\ copied = <<>>

\* lines 47-48
MakeOutputDir ==
    /\ pc = "start"
    /\ dirs' = dirs \cup { OutputDir }
    /\ made' = made \cup ({ OutputDir } \ dirs)
    /\ pc' = "scan"
    /\ UNCHANGED << files, root_exists, similarity_threshold, all_images, md5_groups,
                    unique_images, duplicate_count, phash_groups, similar_groups,
                    processed_hashes, i, j, unique_count, unique_files, group_files,
                    copied >>

\* lines 51-60
Scan ==
    /\ pc = "scan"
    /\ all_images' = ScanImages(Walk, <<>>)
    /\ pc' = "md5"
    /\ UNCHANGED << files, root_exists, similarity_threshold, dirs, made, md5_groups,
                    unique_images, duplicate_count, phash_groups, similar_groups,
                    processed_hashes, i, j, unique_count, unique_files, group_files,
                    copied >>

\* lines 63-77
Deduplicate ==
    /\ pc = "md5"
    /\ LET groups == GroupByMd5(all_images, <<>>)
       IN  /\ md5_groups' = groups
           /\ unique_images' = [ k \in 1..Len(groups) |-> Representative(groups[k].paths) ]
           /\ duplicate_count' = CountDuplicates(groups)
    /\ pc' = "phash"
    /\ UNCHANGED << files, root_exists, similarity_threshold, dirs, made, all_images,
                    phash_groups, similar_groups, processed_hashes, i, j, unique_count,
                    unique_files, group_files, copied >>

\* lines 80-88
Fingerprint ==
    /\ pc = "phash"
    /\ phash_groups' = GroupByPhash(unique_images, <<>>)
    /\ similar_groups' = <<>>
    /\ processed_hashes' = {}
    /\ i' = 1
    /\ pc' = "cluster"
    /\ UNCHANGED << files, root_exists, similarity_threshold, dirs, made, all_images,
                    md5_groups, unique_images, duplicate_count, j, unique_count,
                    unique_files, group_files, copied >>

\* lines 90-107, one iteration of the outer loop
ClusterStep ==
    /\ pc = "cluster"
    /\ i <= Len(phash_groups)
    /\ LET st == ClusterIteration(phash_groups, i,
                    [ similar_groups |-> similar_groups,
                      processed_hashes |-> processed_hashes ],
                    similarity_threshold)
       IN  /\ similar_groups' = st.similar_groups
           /\ processed_hashes' = st.processed_hashes
    /\ i' = i + 1
    /\ UNCHANGED << files, root_exists, similarity_threshold, pc, dirs, made, all_images,
                    md5_groups, unique_images, duplicate_count, phash_groups, j,
                    unique_count, unique_files, group_files, copied >>

\* lines 110-120
MakeDirs ==
    /\ pc = "cluster"
    /\ i > Len(phash_groups)
    /\ dirs' = dirs \cup { UniqueDir, SimilarDir }
    /\ made' = made \cup ({ UniqueDir, SimilarDir } \ dirs)
    /\ unique_count' = 0
    /\ i' = 1
    /\ pc' = "unique"
    /\ UNCHANGED << files, root_exists, similarity_threshold, all_images, md5_groups,
                    unique_images, duplicate_count, phash_groups, similar_groups,
                    processed_hashes, j, unique_files, group_files, copied >>

\* lines 121-133, one iteration; copy2 raising ends the run
CopyUnique ==
    /\ pc = "unique"
    /\ i <= Len(phash_groups)
    /\ LET phash == phash_groups[i].key
           file_paths == phash_groups[i].paths
       IN  IF IsUniqueIcon(file_paths, phash, processed_hashes)
           THEN LET src_path == file_paths[1]
                    dst_path == UniqueDstPath(basename(src_path), unique_files, unique_count)
                IN  \E ok \in BOOLEAN :
                        IF ok
                        THEN /\ unique_files' = Copy2(unique_files, dst_path, src_path)
                             /\ copied' = Append(copied, << UniqueDir, dst_path, src_path >>)
                             /\ unique_count' = unique_count + 1
                             /\ i' = i + 1
                             /\ pc' = pc
                        ELSE /\ pc' = "aborted"
                             /\ UNCHANGED << unique_files, copied, unique_count, i >>
           ELSE /\ i' = i + 1
                /\ UNCHANGED << unique_files, copied, unique_count, pc >>
    /\ UNCHANGED << files, root_exists, similarity_threshold, dirs, made, all_images,
                    md5_groups, unique_images, duplicate_count, phash_groups,
                    similar_groups, processed_hashes, j, group_files >>

\* leaving the loop of lines 121-133 for the loop of line 136
EnterGroups ==
    /\ pc = "unique"
    /\ i > Len(phash_groups)
    /\ i' = 1
    /\ j' = 0
    /\ pc' = "groups"
    /\ UNCHANGED << files, root_exists, similarity_threshold, dirs, made, all_images,
                    md5_groups, unique_images, duplicate_count, phash_groups,
                    similar_groups, processed_hashes, unique_count, unique_files,
                    group_files, copied >>

\* lines 136-150, one member of group i (its directory is made before member 0)
CopyGroupMember ==
    /\ pc = "groups"
    /\ i <= Len(similar_groups)
    /\ LET group == similar_groups[i]
           group_dir == GroupDir(i)
           file_path == group[j + 1]
           before == IF j = 0 THEN {} ELSE group_files[i]
           dst_path == GroupDstPath(basename(file_path), before, j)
           last == (j + 1 = Len(group))
       IN  /\ dirs' = dirs \cup { group_dir }
           /\ made' = made \cup ({ group_dir } \ dirs)
           /\ \E ok \in BOOLEAN :
                IF ok
                THEN /\ group_files' =
                            IF j = 0 THEN Append(group_files, Copy2(before, dst_path, file_path))
                            ELSE [ group_files EXCEPT ![i] = Copy2(before, dst_path, file_path) ]
                     /\ copied' = Append(copied, << group_dir, dst_path, file_path >>)
                     /\ i' = IF last THEN i + 1 ELSE i
                     /\ j' = IF last THEN 0 ELSE j + 1
                     /\ pc' = pc
                ELSE /\ pc' = "aborted"
                     /\ UNCHANGED << group_files, copied, i, j >>
    /\ UNCHANGED << files, root_exists, similarity_threshold, all_images, md5_groups,
                    unique_images, duplicate_count, phash_groups, similar_groups,
                    processed_hashes, unique_count, unique_files >>

\* lines 152-155
Summary ==
    /\ pc = "groups"
    /\ i > Len(similar_groups)
    /\ pc' = "done"
    /\ UNCHANGED << files, root_exists, similarity_threshold, dirs, made, all_images,
                    md5_groups, unique_images, duplicate_count, phash_groups,
                    similar_groups, processed_hashes, i, j, unique_count, unique_files,
                    group_files, copied >>

Next ==
    \/ MakeOutputDir
    \/ Scan
    \/ Deduplicate
    \/ Fingerprint
    \/ ClusterStep
    \/ MakeDirs
    \/ CopyUnique
    \/ EnterGroups
    \/ CopyGroupMember
    \/ Summary

Spec == Init /\ [][Next]_vars

TypeOK ==
    /\ pc \in { "start", "scan", "md5", "phash", "cluster", "unique", "groups", "done", "aborted" }
    /\ duplicate_count \in Nat
    /\ unique_count \in Nat


\* ---- vocabulary of the properties --------------------------------------

Finished == pc = "done"

\* the clustering pass has run to its end
Clustered == pc \in { "unique", "groups", "done" }

Discovered == Range(all_images)

NoDigest == { p \in Discovered : ~Truthy(calculate_file_md5(p)) }

NoFingerprint == { p \in Range(unique_images) : ~Truthy(calculate_image_hash(p)) }

ExcludedCount == Cardinality(NoDigest) + Cardinality(NoFingerprint)

Fingerprinted == UNION { Range(phash_groups[k].paths) : k \in 1..Len(phash_groups) }

InUniqueIcons(p) == \E e \in unique_files : e.src = p

GroupsHolding(p) == { g \in 1..Len(similar_groups) : p \in Range(similar_groups[g]) }

InGroupOutput(p) == \E g \in 1..Len(group_files) : \E e \in group_files[g] : e.src = p

\* the fingerprint that started a cluster: line 94 puts the seed's paths first
SeedOf(group) == calculate_image_hash(group[1])

FingerprintsOf(group) == { calculate_image_hash(p) : p \in Range(group) }

\* a singleton fingerprint group that no cluster merged with another group
QualifiesAsUnique(k) ==
    /\ Len(phash_groups[k].paths) = 1
    /\ GroupsHolding(phash_groups[k].paths[1]) = {}

\* ---- C1 ----------------------------------------------------------------

C2_MembersNearSeed ==
    \A g \in 1..Len(similar_groups) :
        \A f \in FingerprintsOf(similar_groups[g]) :
            HammingDistance(SeedOf(similar_groups[g]), f) <= similarity_threshold

\* a cluster, at a positive threshold, with two members that are each within
\* the threshold of the seed but farther than the threshold from each other
C2_Witness ==
    \E g \in 1..Len(similar_groups) :
        \E f1, f2 \in FingerprintsOf(similar_groups[g]) :
            /\ HammingDistance(f1, f2) > similarity_threshold
            /\ similarity_threshold > 0

\* ---- C3 ----------------------------------------------------------------

\* C3: after a complete run the path of every singleton fingerprint group is
\* in exactly one of the outputs: in unique_icons, or in exactly one
\* similarity group; never both and never neither.
C3_SingletonInExactlyOne ==
    Finished =>
        \A k \in 1..Len(phash_groups) :
            Len(phash_groups[k].paths) = 1 =>
                LET p == phash_groups[k].paths[1]
                IN  \/ InUniqueIcons(p) /\ GroupsHolding(p) = {}
                    \/ ~InUniqueIcons(p) /\ Cardinality(GroupsHolding(p)) = 1

\* ---- C4 ----------------------------------------------------------------

ClustersAt(threshold) == ClusterAll(phash_groups, threshold).similar_groups

\* C4 as stated: every similarity cluster produced at this threshold has, at
\* every larger threshold, a cluster with the same seed and at least as many
\* paths.
C4_MonotoneEverySeed ==
    Clustered =>
        \A t2 \in similarity_threshold..MaxThreshold :
            \A g \in 1..Len(similar_groups) :
                \E h \in 1..Len(ClustersAt(t2)) :
                    /\ SeedOf(ClustersAt(t2)[h]) = SeedOf(similar_groups[g])
                    /\ Len(ClustersAt(t2)[h]) >= Len(similar_groups[g])

\* C4 amended: the similarity cluster seeded by the first fingerprint in
\* enumeration order has, at every larger threshold, a cluster with the same
\* seed that holds all of its paths (so at least as many).
C4_MonotoneFirstSeed ==
    Clustered =>
        \A t2 \in similarity_threshold..MaxThreshold :
            \A g \in 1..Len(similar_groups) :
                SeedOf(similar_groups[g]) = phash_groups[1].key =>
                    \E h \in 1..Len(ClustersAt(t2)) :
                        /\ SeedOf(ClustersAt(t2)[h]) = SeedOf(similar_groups[g])
                        /\ Range(similar_groups[g]) \subseteq Range(ClustersAt(t2)[h])
                        /\ Len(ClustersAt(t2)[h]) >= Len(similar_groups[g])

\* the first seed's cluster exists and a larger threshold makes it grow
C4_Witness ==
    /\ Clustered
    /\ \E g \in 1..Len(similar_groups) :
         /\ SeedOf(similar_groups[g]) = phash_groups[1].key
         /\ \E t2 \in similarity_threshold..MaxThreshold :
              \E h \in 1..Len(ClustersAt(t2)) :
                 /\ SeedOf(ClustersAt(t2)[h]) = phash_groups[1].key
                 /\ Len(ClustersAt(t2)[h]) > Len(similar_groups[g])

\* ---- C5 ----------------------------------------------------------------

\* C5: when unique icons of different content share a base name, each of
\* them is present in unique_icons under a name of its own after the run.
C5_UniqueIconsPreserved ==
    Finished =>
        \A k1, k2 \in 1..Len(phash_groups) :
            LET p1 == phash_groups[k1].paths[1]
                p2 == phash_groups[k2].paths[1]
            IN  ( /\ k1 # k2
                  /\ QualifiesAsUnique(k1)
                  /\ QualifiesAsUnique(k2)
                  /\ basename(p1) = basename(p2) )
                => \E e1, e2 \in unique_files :
                       e1.src = p1 /\ e2.src = p2 /\ e1.name # e2.name

\* ---- C6 ----------------------------------------------------------------

\* C6: a failing copy of one file never aborts the run.
C6_CopyFailureDoesNotAbort == pc # "aborted"

\* ---- C7 ----------------------------------------------------------------

\* C7: when the input root is missing the run creates no output directory
\* and does not end with its normal summary.
C7_MissingRootIsFatal ==
    ~root_exists => (made = {} /\ ~Finished)

\* ---- C8 ----------------------------------------------------------------

C9_GroupMembersKept ==
    Finished =>
        \A g \in 1..Len(similar_groups) :
            /\ Cardinality(group_files[g]) = Len(similar_groups[g])
            /\ \A p \in Range(similar_groups[g]) : \E e \in group_files[g] : e.src = p

\* ---- C10 ---------------------------------------------------------------

\* C10: at every step of the clustering pass no fingerprint and no path is in
\* two clusters, every fingerprint the loop has passed is marked, and when
\* the pass ends the processed-marker set is the set of all fingerprints.
C10_ConsumedOnce ==
    /\ \A g, h \in 1..Len(similar_groups) :
          g # h => FingerprintsOf(similar_groups[g]) \cap FingerprintsOf(similar_groups[h]) = {}
    /\ \A g \in 1..Len(similar_groups) :
          /\ Cardinality(Range(similar_groups[g])) = Len(similar_groups[g])
          /\ FingerprintsOf(similar_groups[g]) \subseteq processed_hashes
    /\ processed_hashes \subseteq Keys(phash_groups)
    /\ pc = "cluster" =>
          \A k \in 1..Len(phash_groups) : k < i => phash_groups[k].key \in processed_hashes
    /\ Clustered => processed_hashes = Keys(phash_groups)

\* the pass has ended after skipping a fingerprint an earlier seed had merged
C10_Witness ==
    /\ Clustered
    /\ Len(similar_groups) > 0
    /\ Len(phash_groups) = 3
    /\ SeedOf(similar_groups[1]) = phash_groups[1].key
    /\ phash_groups[2].key \in FingerprintsOf(similar_groups[1])
    /\ phash_groups[3].key \notin FingerprintsOf(similar_groups[1])

====
